---- MODULE Spec2Model ----
(***************************************************************************)
(* A model of wowapi.api.WowApi: the per-region token cache, the OAuth     *)
(* client-credentials exchange (_get_client_credentials), the proactive    *)
(* freshness check of get_resource, and the 401 handling of                *)
(* _handle_request.                                                        *)
(*                                                                         *)
(* Every blocking HTTP GET splits the code that surrounds it into two      *)
(* atomic steps: the step that sends the request and the step that runs    *)
(* when session.get returns (or raises).  The clock may advance while a    *)
(* request is on the wire.                                                 *)
(***************************************************************************)
EXTENDS Integers, Sequences, FiniteSets, TLC

----------------------------------------------------------------------------
(* Bounds of the model *)

\* the callers that share the one client
NumCallers == 2
\* the clock runs from 0 to MaxTime seconds, in steps of TickStep seconds
MaxTime == 20
TickStep == 10
\* the call counters stop counting at MaxCount ("MaxCount or more")
MaxCount == 3

Callers == 1..NumCallers
\* the caller of the sequential specifications: the first one
MainCaller == CHOOSE p \in Callers : \A q \in Callers : p <= q

Regions == {"us", "cn"}
\* the access_token values the OAuth endpoint grants
Tokens == {"T1", "T2"}
\* the expires_in values (seconds) the OAuth endpoint grants
ExpiresIn == {20, 40}
\* HTTP status codes the endpoints answer
Statuses == {200, 401, 404}
\* the JSON documents the resource endpoint serves
Payloads == {"P1", "P2"}

----------------------------------------------------------------------------
(* Program constants *)

\* timedelta(seconds=30) of the freshness check
Margin == 30

----------------------------------------------------------------------------
(* Python dicts: functions whose domain is the set of keys present *)

EmptyDict == [k \in {} |-> ""]

\* a new dict made of the one item: {k: v}
Put_dropsOthers(d, k, v) == [x \in {k} |-> v]

\* d.setdefault(k, v): an item the dict holds already is kept
Put_keepsExisting(d, k, v) ==
    [x \in (DOMAIN d) \cup {k} |-> IF x \in DOMAIN d THEN d[x] ELSE v]

\* d[k] = v
Put(d, k, v) == [x \in (DOMAIN d) \cup {k} |-> IF x = k THEN v ELSE d[x]]

\* d.get(k, default)
Get(d, k, default) == IF k \in DOMAIN d THEN d[k] ELSE default

----------------------------------------------------------------------------
(* URLs, as the sequence of the pieces str.format joins *)

\* a format string is the sequence of its literal pieces and its replacement
\* fields: 'wow/item/{0}' is <<Lit("wow/item/"), Field(0)>>
Lit(s) == [lit |-> s, field |-> -1]
Field(i) == [lit |-> "", field |-> i]

\* the positional arguments of a call: Python ints and strs
IntArg(n) == [type |-> "int", int |-> n, str |-> ""]
StrArg(s) == [type |-> "str", int |-> 0, str |-> s]

\* format(v, ''): the decimal numeral of an int, a str as it is
Text(v) == IF v.type = "int" THEN ToString(v.int) ELSE v.str

\* every replacement field {i} filled with the text of the first argument
Format_firstArgument(template, args) ==
    [i \in DOMAIN template |->
        IF template[i].field >= 0 THEN Text(args[1]) ELSE template[i].lit]

\* template.format(*args)
Format(template, args) ==
    [i \in DOMAIN template |->
        IF template[i].field >= 0 THEN Text(args[template[i].field + 1])
                                  ELSE template[i].lit]

\* the resource of get_bosses: the template of the calls of Spec
ResourcePath == <<Lit("wow/boss/")>>

\* the base url without the special case of the region cn
BaseUrl_templated(r) == <<r, ".api.blizzard.com">>

BaseUrl(r) == IF r = "cn" THEN <<"www.gateway.battlenet.com.cn">>
                          ELSE <<r, ".api.blizzard.com">>

\* resource is the formatted resource, the pieces of Format
ResourceUrl(r, resource) == <<"https://">> \o BaseUrl(r) \o <<"/">> \o resource

\* the credentials the client was constructed with
ClientId == "client-id"
ClientSecret == "client-secret"

OauthPath == <<"/oauth/token?grant_type=client_credentials&client_id=", ClientId,
               "&client_secret=", ClientSecret>>

OauthUrl(r) == IF r = "cn" THEN <<"https://", "www.battlenet.com.cn">> \o OauthPath
                           ELSE <<"https://", r, ".battle.net">> \o OauthPath

\* the pre-built URLs callers hand to get_data_resource
DataUrls == {<<"https://", "us", ".api.blizzard.com", "/", "data/wow/page/2">>}

----------------------------------------------------------------------------
(* What the transport hands back *)

NoBody == [json |-> FALSE, fields |-> EmptyDict, data |-> ""]

\* bodies of the OAuth endpoint: not JSON, or a JSON object with some fields
OauthBodies ==
    {NoBody}
    \cup {[json |-> TRUE, data |-> "",
           fields |-> [access_token |-> t, expires_in |-> e]] :
              t \in Tokens, e \in ExpiresIn}
    \cup {[json |-> TRUE, data |-> "", fields |-> [expires_in |-> 40]],
          [json |-> TRUE, data |-> "", fields |-> [access_token |-> "T1"]]}

\* bodies of the resource endpoint: not JSON, or a JSON document
ResourceBodies ==
    {NoBody} \cup {[json |-> TRUE, fields |-> EmptyDict, data |-> d] : d \in Payloads}

\* session.get raises RequestException, or returns a response
Raised == [type |-> "RequestException", status |-> 0, body |-> NoBody]

OauthOutcomes ==
    {Raised}
    \cup {[type |-> "response", status |-> 200, body |-> b] : b \in OauthBodies}
    \cup {[type |-> "response", status |-> 401, body |-> NoBody]}

ResourceOutcomes ==
    {Raised}
    \cup {[type |-> "response", status |-> 200, body |-> b] : b \in ResourceBodies}
    \cup {[type |-> "response", status |-> s, body |-> NoBody] : s \in Statuses \ {200}}

\* requests.Response.ok
Ok(status) == ~(400 <= status /\ status < 600)

----------------------------------------------------------------------------
(* What a call ends with *)

None == [kind |-> "None", data |-> ""]
Returned(d) == [kind |-> "data", data |-> d]
WowApiException == [kind |-> "WowApiException", data |-> ""]
WowApiOauthException == [kind |-> "WowApiOauthException", data |-> ""]
KeyError == [kind |-> "KeyError", data |-> ""]

----------------------------------------------------------------------------
(* State *)

VARIABLES
    access_tokens,  \* self._access_tokens: region -> [token, expiration]
    clock,          \* what self._utcnow() returns, in seconds
    pc,             \* per caller: "idle", "oauth" (the OAuth GET is on the
                    \* wire), "request" (the resource GET is), "done"
    style,          \* per caller: the public method called
    region,         \* per caller: the region argument
    url,            \* per caller: the url of the resource request
    params,         \* per caller: kwargs['params'] of _handle_request
    now,            \* per caller: the local now of _get_client_credentials
    oauthUrl,       \* per caller: the local url of _get_client_credentials
    ret,            \* per caller: who called _get_client_credentials
    frames,         \* per caller: _handle_request invocations of the call
    result,         \* per caller: what the call returned or raised
    \* observations of the call in progress, read by the properties only
    cache0,         \* the cache when the call started
    resource0,      \* the resource template get_resource was called with
    args0,          \* the positional arguments get_resource was called with
    filters0,       \* the filters the caller passed
    checkNow,       \* the clock when the call started
    nPre,           \* OAuth requests sent before the first resource request
    nForced,        \* OAuth requests sent after a 401
    recvAt,         \* the clock when the OAuth endpoint last answered
    lastOauth,      \* the last answer of the OAuth endpoint
    hist            \* the answers of the resource endpoint, oldest first

progVars == <<pc, style, region, url, params, now, oauthUrl, ret, frames, result>>
obsVars == <<cache0, resource0, args0, filters0, checkNow, nPre, nForced, recvAt, lastOauth, hist>>
vars == <<access_tokens, clock, progVars, obsVars>>

\* a counter that stops at MaxCount: the recursion of _handle_request has no
\* bound of its own, and the model does not tell MaxCount frames from more
Inc(n) == IF n < MaxCount THEN n + 1 ELSE n

\* a history that keeps its first MaxCount entries
Record(h, x) == IF Len(h) < MaxCount THEN Append(h, x) ELSE h

NoAnswer == [type |-> "none", status |-> 0, body |-> NoBody]

\* the caller's filters: keyword arguments of get_resource
FilterSets == {EmptyDict, [locale |-> "en_GB", access_token |-> "mine"]}

Init ==
    /\ access_tokens = EmptyDict
    /\ clock = 0
    /\ pc = [p \in Callers |-> "idle"]
    /\ style = [p \in Callers |-> "none"]
    /\ region = [p \in Callers |-> "us"]
    /\ url = [p \in Callers |-> <<>>]
    /\ params = [p \in Callers |-> EmptyDict]
    /\ now = [p \in Callers |-> 0]
    /\ oauthUrl = [p \in Callers |-> <<>>]
    /\ ret = [p \in Callers |-> "none"]
    /\ frames = [p \in Callers |-> 0]
    /\ result = [p \in Callers |-> None]
    /\ cache0 = [p \in Callers |-> EmptyDict]
    /\ resource0 = [p \in Callers |-> <<>>]
    /\ args0 = [p \in Callers |-> <<>>]
    /\ filters0 = [p \in Callers |-> EmptyDict]
    /\ checkNow = [p \in Callers |-> 0]
    /\ nPre = [p \in Callers |-> 0]
    /\ nForced = [p \in Callers |-> 0]
    /\ recvAt = [p \in Callers |-> 0]
    /\ lastOauth = [p \in Callers |-> NoAnswer]
    /\ hist = [p \in Callers |-> <<>>]

----------------------------------------------------------------------------
(* The freshness check of get_resource and the record an exchange stores *)

\* the check without its first branch: a region that has no record is
\* taken to hold a fresh one
NeedsExchange_ignoresMissing(tokens, r, t) ==
    r \in DOMAIN tokens /\ t >= tokens[r]["expiration"] - Margin

\* the margin taken in minutes: timedelta(minutes=30)
NeedsExchange_minutes(tokens, r, t) ==
    IF r \notin DOMAIN tokens
        THEN TRUE
        ELSE t >= tokens[r]["expiration"] - 60 * Margin

\* the comparison written > in place of >=
NeedsExchange_strict(tokens, r, t) ==
    IF r \notin DOMAIN tokens
        THEN TRUE
        ELSE t > tokens[r]["expiration"] - Margin

\* the check without its margin: a record counts as fresh until it expires
NeedsExchange_noMargin(tokens, r, t) ==
    IF r \notin DOMAIN tokens
        THEN TRUE
        ELSE t >= tokens[r]["expiration"]

\* get_resource: whether the freshness check calls _get_client_credentials
NeedsExchange(tokens, r, t) ==
    IF r \notin DOMAIN tokens
        THEN TRUE
        ELSE t >= tokens[r]["expiration"] - Margin

\* the clock read after session.get returned instead of before it
Expiration_atReceipt(t0, expires_in) == clock + expires_in

\* expires_in taken for minutes: timedelta(minutes=expires_in)
Expiration_minutes(t0, expires_in) == t0 + 60 * expires_in

\* _get_client_credentials: expiration = now + timedelta(seconds=expires_in)
Expiration(t0, expires_in) == t0 + expires_in

\* _get_client_credentials: the record stored for the region
TokenRecord(t0, fields) ==
    [token |-> fields["access_token"],
     expiration |-> Expiration(t0, fields["expires_in"])]

\* the cache rebuilt around the new record: self._access_tokens = {region: ...}
Store_replacesAll(tokens, r, rec) == [x \in {r} |-> rec]

\* only the token of an existing record updated, its expiration kept
Store_keepsExpiration(tokens, r, rec) ==
    IF r \in DOMAIN tokens
        THEN Put(tokens, r, [token |-> rec["token"],
                             expiration |-> tokens[r]["expiration"]])
        ELSE Put(tokens, r, rec)

\* the record built and logged but never put in the cache
Store_dropsRecord(tokens, r, rec) == tokens

\* _get_client_credentials: self._access_tokens[region] = {...}
Store(tokens, r, rec) == Put(tokens, r, rec)

\* the two raise statements after the HTTP answer raising the request error
OauthError_asRequestError(out) ==
    IF out.type = "RequestException" THEN WowApiOauthException
    ELSE IF ~Ok(out.status) THEN WowApiException
    ELSE IF ~out.body.json THEN WowApiException
    ELSE IF "access_token" \notin DOMAIN out.body.fields THEN KeyError
    ELSE IF "expires_in" \notin DOMAIN out.body.fields THEN KeyError
    ELSE None

\* the except clause of session.get raising the request error, as the one of
\* _handle_request does
OauthError_transportAsRequestError(out) ==
    IF out.type = "RequestException" THEN WowApiException
    ELSE IF ~Ok(out.status) THEN WowApiOauthException
    ELSE IF ~out.body.json THEN WowApiOauthException
    ELSE IF "access_token" \notin DOMAIN out.body.fields THEN KeyError
    ELSE IF "expires_in" \notin DOMAIN out.body.fields THEN KeyError
    ELSE None

\* what _get_client_credentials raises on the answer out, None when it stores
OauthError(out) ==
    IF out.type = "RequestException" THEN WowApiOauthException
    ELSE IF ~Ok(out.status) THEN WowApiOauthException
    ELSE IF ~out.body.json THEN WowApiOauthException
    ELSE IF "access_token" \notin DOMAIN out.body.fields THEN KeyError
    ELSE IF "expires_in" \notin DOMAIN out.body.fields THEN KeyError
    ELSE None

\* the 401 branch left out: every status that is not ok raises
RetriesOn_never(status) == FALSE

\* every status that is not ok taken for an invalid token
RetriesOn_anyError(status) == status >= 400

\* _handle_request: whether the answer makes it fetch a token and call itself
RetriesOn(status) == status = 401

\* the except clause of session.get raising the OAuth error
HandleResult_oauthError(out) ==
    IF out.type = "RequestException" THEN WowApiOauthException
    ELSE IF ~Ok(out.status) THEN WowApiException
    ELSE IF ~out.body.json THEN WowApiException
    ELSE Returned(out.body.data)

\* response.json() without its try: a body that does not parse is handed to
\* the caller as it came
HandleResult_rawBody(out) ==
    IF out.type = "RequestException" THEN WowApiException
    ELSE IF ~Ok(out.status) THEN WowApiException
    ELSE Returned(out.body.data)

\* _handle_request: what the frame that got the answer out returns or raises
HandleResult(out) ==
    IF out.type = "RequestException" THEN WowApiException
    ELSE IF ~Ok(out.status) THEN WowApiException
    ELSE IF ~out.body.json THEN WowApiException
    ELSE Returned(out.body.data)

\* the recursive call written without return: the frame that retried drops
\* the data and falls through to raise WowApiException(msg)
Unwind_dropsReturn(n, res) ==
    IF n > 1 /\ res.kind = "data" THEN WowApiException ELSE res

\* _handle_request: what the outermost frame hands to the caller when the
\* innermost of n frames ended with res ("return self._handle_request(...)")
Unwind(n, res) == res

----------------------------------------------------------------------------
(* Steps of a call *)

\* _get_client_credentials(r) up to session.get(url): builds the url, reads
\* the clock and sends the OAuth request; who is the caller to return to
SendOauth(p, who, r) ==
    /\ pc' = [pc EXCEPT ![p] = "oauth"]
    /\ oauthUrl' = [oauthUrl EXCEPT ![p] = OauthUrl(r)]
    /\ now' = [now EXCEPT ![p] = clock]
    /\ ret' = [ret EXCEPT ![p] = who]

\* _handle_request up to session.get(url, **kwargs): sends the resource
\* request with the query parameters q, in the n-th frame of the call
SendRequest(p, q, n) ==
    /\ pc' = [pc EXCEPT ![p] = "request"]
    /\ params' = [params EXCEPT ![p] = q]
    /\ frames' = [frames EXCEPT ![p] = n]

\* the call ends: res is returned or raised to the caller
Finish(p, res) ==
    /\ pc' = [pc EXCEPT ![p] = "done"]
    /\ result' = [result EXCEPT ![p] = res]

\* get_resource, from filters['access_token'] = ... on: reads the token of
\* the region in the cache tokens (a KeyError when it holds none), adds it
\* to the filters f and sends the resource request; res is the result so far
AttachAndSend(p, tokens, r, f, res) ==
    IF r \in DOMAIN tokens
        THEN /\ SendRequest(p, Put(f, "access_token", tokens[r]["token"]), 1)
             /\ result' = [result EXCEPT ![p] = res]
        ELSE /\ Finish(p, KeyError)
             /\ params' = [params EXCEPT ![p] = f]
             /\ frames' = [frames EXCEPT ![p] = 0]

\* a new call starts: the observations start afresh
Begin(p, s, r, u) ==
    /\ pc[p] \in {"idle", "done"}
    /\ style' = [style EXCEPT ![p] = s]
    /\ region' = [region EXCEPT ![p] = r]
    /\ url' = [url EXCEPT ![p] = u]
    /\ cache0' = [cache0 EXCEPT ![p] = access_tokens]
    /\ checkNow' = [checkNow EXCEPT ![p] = clock]
    /\ nForced' = [nForced EXCEPT ![p] = 0]
    /\ lastOauth' = [lastOauth EXCEPT ![p] = NoAnswer]
    /\ hist' = [hist EXCEPT ![p] = <<>>]

\* get_resource(resource, region, *args, **filters), up to its first HTTP
\* request
GetResource(p, resource, r, args, f) ==
    /\ Begin(p, "get_resource", r, ResourceUrl(r, Format(resource, args)))
    /\ resource0' = [resource0 EXCEPT ![p] = resource]
    /\ args0' = [args0 EXCEPT ![p] = args]
    /\ IF NeedsExchange(access_tokens, r, clock)
          THEN /\ SendOauth(p, "get_resource", r)
               /\ params' = [params EXCEPT ![p] = f]
               /\ frames' = [frames EXCEPT ![p] = 0]
               /\ nPre' = [nPre EXCEPT ![p] = 1]
               /\ result' = [result EXCEPT ![p] = None]
               /\ UNCHANGED recvAt
          ELSE /\ AttachAndSend(p, access_tokens, r, f, None)
               /\ nPre' = [nPre EXCEPT ![p] = 0]
               /\ oauthUrl' = [oauthUrl EXCEPT ![p] = <<>>]
               /\ UNCHANGED <<now, ret, recvAt>>
    /\ filters0' = [filters0 EXCEPT ![p] = f]
    /\ UNCHANGED <<access_tokens, clock>>

\* get_data_resource routed through the freshness check of get_resource
GetDataResource_checksFirst(p, u, r) ==
    /\ Begin(p, "get_data_resource", r, u)
    /\ IF NeedsExchange(access_tokens, r, clock)
          THEN /\ SendOauth(p, "get_resource", r)
               /\ params' = [params EXCEPT ![p] = EmptyDict]
               /\ frames' = [frames EXCEPT ![p] = 0]
               /\ nPre' = [nPre EXCEPT ![p] = 1]
               /\ result' = [result EXCEPT ![p] = None]
               /\ UNCHANGED recvAt
          ELSE /\ AttachAndSend(p, access_tokens, r, EmptyDict, None)
               /\ nPre' = [nPre EXCEPT ![p] = 0]
               /\ oauthUrl' = [oauthUrl EXCEPT ![p] = <<>>]
               /\ UNCHANGED <<now, ret, recvAt>>
    /\ filters0' = [filters0 EXCEPT ![p] = EmptyDict]
    /\ resource0' = [resource0 EXCEPT ![p] = <<>>]
    /\ args0' = [args0 EXCEPT ![p] = <<>>]
    /\ UNCHANGED <<access_tokens, clock>>

\* get_data_resource reading the token as get_resource does:
\* self._access_tokens[region]['token']
GetDataResource_requiresRecord(p, u, r) ==
    /\ Begin(p, "get_data_resource", r, u)
    /\ AttachAndSend(p, access_tokens, r, EmptyDict, None)
    /\ nPre' = [nPre EXCEPT ![p] = 0]
    /\ oauthUrl' = [oauthUrl EXCEPT ![p] = <<>>]
    /\ filters0' = [filters0 EXCEPT ![p] = EmptyDict]
    /\ resource0' = [resource0 EXCEPT ![p] = <<>>]
    /\ args0' = [args0 EXCEPT ![p] = <<>>]
    /\ UNCHANGED <<access_tokens, clock, now, ret, recvAt>>

\* get_data_resource(url, region), up to its HTTP request
GetDataResource(p, u, r) ==
    /\ Begin(p, "get_data_resource", r, u)
    /\ SendRequest(p, [access_token |-> Get(Get(access_tokens, r, EmptyDict), "token", "")], 1)
    /\ nPre' = [nPre EXCEPT ![p] = 0]
    /\ result' = [result EXCEPT ![p] = None]
    /\ oauthUrl' = [oauthUrl EXCEPT ![p] = <<>>]
    /\ filters0' = [filters0 EXCEPT ![p] = EmptyDict]
    /\ resource0' = [resource0 EXCEPT ![p] = <<>>]
    /\ args0' = [args0 EXCEPT ![p] = <<>>]
    /\ UNCHANGED <<access_tokens, clock, now, ret, recvAt>>

\* _get_client_credentials from the return of session.get(url) on, and what
\* its caller does next: get_resource attaches the stored token and sends the
\* resource request, _handle_request calls itself with the kwargs it has
OauthResponse(p, out) ==
    /\ pc[p] = "oauth"
    /\ lastOauth' = [lastOauth EXCEPT ![p] = out]
    /\ recvAt' = [recvAt EXCEPT ![p] = clock]
    /\ IF OauthError(out) # None
          THEN /\ Finish(p, OauthError(out))
               /\ UNCHANGED <<access_tokens, params, frames>>
          ELSE /\ access_tokens' = Store(access_tokens, region[p],
                                         TokenRecord(now[p], out.body.fields))
               /\ IF ret[p] = "get_resource"
                     THEN AttachAndSend(p, access_tokens', region[p], params[p], result[p])
                     ELSE /\ SendRequest(p, params[p], Inc(frames[p]))
                          /\ UNCHANGED result
    /\ UNCHANGED <<clock, style, region, url, now, oauthUrl, ret, cache0,
                   resource0, args0, filters0, checkNow, nPre, nForced, hist>>

\* _handle_request from the return of session.get(url, **kwargs) on
ResourceResponse(p, out) ==
    /\ pc[p] = "request"
    /\ hist' = [hist EXCEPT ![p] = Record(@, out)]
    /\ IF out.type = "response" /\ ~Ok(out.status) /\ RetriesOn(out.status)
          THEN /\ SendOauth(p, "_handle_request", region[p])
               /\ nForced' = [nForced EXCEPT ![p] = Inc(@)]
               /\ UNCHANGED result
          ELSE /\ Finish(p, Unwind(frames[p], HandleResult(out)))
               /\ UNCHANGED <<now, oauthUrl, ret, nForced>>
    /\ UNCHANGED <<access_tokens, clock, style, region, url, params, frames,
                   cache0, resource0, args0, filters0, checkNow, nPre, recvAt,
                   lastOauth>>

\* time passes
Tick ==
    /\ clock + TickStep <= MaxTime
    /\ clock' = clock + TickStep
    /\ UNCHANGED <<access_tokens, progVars, obsVars>>

----------------------------------------------------------------------------
(* Specifications *)

CallResource(p) ==
    \E r \in Regions, f \in FilterSets : GetResource(p, ResourcePath, r, <<>>, f)
CallDataResource(p) == \E u \in DataUrls, r \in Regions : GetDataResource(p, u, r)
OauthAnswers(p) == \E out \in OauthOutcomes : OauthResponse(p, out)
ResourceAnswers(p) == \E out \in ResourceOutcomes : ResourceResponse(p, out)

\* one caller, one call at a time: the use the client is written for
Next ==
    \/ CallResource(MainCaller)
    \/ CallDataResource(MainCaller)
    \/ OauthAnswers(MainCaller)
    \/ ResourceAnswers(MainCaller)
    \/ Tick

Spec == Init /\ [][Next]_vars

\* session.get blocks until the transport answers or gives up: every request
\* on the wire is eventually answered
FairSpec ==
    /\ Spec
    /\ WF_vars(OauthAnswers(MainCaller))
    /\ WF_vars(ResourceAnswers(MainCaller))

\* the callers use the client at the same time, unsynchronised as the code
\* is: each makes one get_resource call, and their steps interleave at the
\* HTTP requests.  The resource endpoint accepts every token here (it answers
\* no 401), so that the only exchanges are those of the freshness checks.
ConcCall(p) ==
    pc[p] = "idle" /\ \E r \in Regions : GetResource(p, ResourcePath, r, <<>>, EmptyDict)

ConcResourceOutcomes == {out \in ResourceOutcomes : out.status # 401}

ConcResourceAnswers(p) == \E out \in ConcResourceOutcomes : ResourceResponse(p, out)

ConcNext ==
    \/ \E p \in Callers : ConcCall(p)
    \/ \E p \in Callers : OauthAnswers(p)
    \/ \E p \in Callers : ConcResourceAnswers(p)
    \/ Tick

ConcSpec == Init /\ [][ConcNext]_vars

\* the calls that format a resource, for every kind of region string: the
\* regions of Spec, one more that exists, and one that does not.  Time stands
\* still and the OAuth endpoint grants one token or fails in transport.
UrlRegions == Regions \cup {"eu", "xx"}
ItemIds == {7, 1234}
RealmNames == {"khadgar", "draenor"}
GuildNames == {"khadgar", "avalon"}

ItemResource == <<Lit("wow/item/"), Field(0)>>
GuildResource == <<Lit("wow/guild/"), Field(0), Lit("/"), Field(1)>>

\* get_item(region, id, **filters)
GetItem(p, r, id, f) == GetResource(p, ItemResource, r, <<IntArg(id)>>, f)

\* get_guild_profile(region, realm, guild_name, **filters)
GetGuildProfile(p, r, realm, guild_name, f) ==
    GetResource(p, GuildResource, r, <<StrArg(realm), StrArg(guild_name)>>, f)

CallItem(p) == \E r \in UrlRegions, id \in ItemIds : GetItem(p, r, id, EmptyDict)

CallGuildProfile(p) ==
    \E r \in UrlRegions, realm \in RealmNames, guild_name \in GuildNames :
        GetGuildProfile(p, r, realm, guild_name, EmptyDict)

UrlOauthOutcomes ==
    {out \in OauthOutcomes :
        \/ out.type = "RequestException"
        \/ /\ out.type = "response" /\ out.status = 200 /\ out.body.json
           /\ out.body.fields = [access_token |-> "T1", expires_in |-> 40]}

UrlOauthAnswers(p) == \E out \in UrlOauthOutcomes : OauthResponse(p, out)

UrlNext ==
    \/ CallItem(MainCaller)
    \/ CallGuildProfile(MainCaller)
    \/ UrlOauthAnswers(MainCaller)
    \/ ResourceAnswers(MainCaller)

UrlSpec == Init /\ [][UrlNext]_vars

\* the calls of Spec against an OAuth endpoint whose tokens live no longer
\* than the margin of the freshness check
ShortOauthOutcomes ==
    {out \in OauthOutcomes :
        "expires_in" \in DOMAIN out.body.fields
            => out.body.fields["expires_in"] <= Margin}

ShortOauthAnswers(p) == \E out \in ShortOauthOutcomes : OauthResponse(p, out)

ShortNext ==
    \/ CallResource(MainCaller)
    \/ CallDataResource(MainCaller)
    \/ ShortOauthAnswers(MainCaller)
    \/ ResourceAnswers(MainCaller)
    \/ Tick

ShortSpec == Init /\ [][ShortNext]_vars

----------------------------------------------------------------------------
(* Vocabulary of the properties *)

M == MainCaller

\* the resource endpoint answered 401
Is401(out) == out.type = "response" /\ out.status = 401

\* the resource endpoint answered 200 with a body that parses
IsPayload(out) == out.type = "response" /\ out.status = 200 /\ out.body.json

\* the OAuth endpoint answered 200 with access_token and expires_in
IsGrant(out) ==
    /\ out.type = "response" /\ out.status = 200 /\ out.body.json
    /\ {"access_token", "expires_in"} \subseteq DOMAIN out.body.fields

\* the OAuth endpoint answered 200 with a JSON body without access_token
LacksToken(out) ==
    /\ out.type = "response" /\ out.status = 200 /\ out.body.json
    /\ "access_token" \notin DOMAIN out.body.fields

\* the OAuth request failed in transport, by status, or by a non-JSON body
PlainFailure(out) ==
    \/ out.type = "RequestException"
    \/ out.type = "response" /\ out.status >= 400
    \/ out.type = "response" /\ out.status = 200 /\ ~out.body.json

\* the record the grant out makes when the exchange started at t0
GrantRecord(out, t0) ==
    [token |-> out.body.fields["access_token"],
     expiration |-> t0 + out.body.fields["expires_in"]]

\* no 401 among the answers of the resource endpoint
No401 == \A i \in DOMAIN hist[M] : ~Is401(hist[M][i])

\* M is in, or has finished, a get_resource call
InGetResource == pc[M] # "idle" /\ style[M] = "get_resource"

----------------------------------------------------------------------------
(* Properties *)

\* C1: in one call there is at most one forced token refresh and at most one
\* retried resource request (two requests in all), and a retried request
\* that is answered 401 too ends the call with WowApiException.
C1_AtMostOneRetry ==
    /\ nForced[M] <= 1
    /\ frames[M] <= 2
    /\ (Len(hist[M]) >= 2 /\ Is401(hist[M][1]) /\ Is401(hist[M][2]))
          => (pc[M] = "done" /\ result[M] = WowApiException)

\* C2: every call that has a request on the wire eventually finishes, whatever
\* the endpoints answer.
C2_CallFinishes == (pc[M] \in {"oauth", "request"}) ~> (pc[M] = "done")

\* C3: a resource request sent after a forced refresh carries the token the
\* cache now holds for the region.
C3_RetryCarriesStoredToken ==
    (pc[M] = "request" /\ frames[M] >= 2)
        => params[M]["access_token"] = access_tokens[region[M]]["token"]

\* C4: a get_resource call whose first resource request is answered 401 and
\* whose next one is answered 200 with a parseable body made exactly one
\* forced exchange, whose grant is the record of the region, sent exactly one
\* retried request, and returns the payload of the 200 answer.
C4_RetryOnceThenPayload ==
    (/\ InGetResource /\ pc[M] = "done"
     /\ Len(hist[M]) = 2 /\ Is401(hist[M][1]) /\ IsPayload(hist[M][2]))
        => /\ nForced[M] = 1
           /\ frames[M] = 2
           /\ IsGrant(lastOauth[M])
           /\ access_tokens[region[M]] = GrantRecord(lastOauth[M], now[M])
           /\ result[M] = Returned(hist[M][2].body.data)

\* the 401 came although the cached token was fresh by the freshness check,
\* and the retried request returned data
C4_Witness ==
    /\ InGetResource /\ pc[M] = "done"
    /\ Len(hist[M]) = 2 /\ Is401(hist[M][1]) /\ IsPayload(hist[M][2])
    /\ nPre[M] = 0 /\ nForced[M] = 1
    /\ cache0[M][region[M]]["expiration"] - checkNow[M] > Margin
    /\ result[M].kind = "data"

\* C5: a get_resource call for a region that had no record sends exactly one
\* OAuth request before its first resource request (and none after it unless
\* a 401 is answered); when the first resource request is on the wire the
\* cache holds the record that exchange granted.
C5_FirstUseFetchesOnce ==
    (InGetResource /\ region[M] \notin DOMAIN cache0[M])
        => /\ nPre[M] = 1
           /\ No401 => nForced[M] = 0
           /\ frames[M] >= 1 => region[M] \in DOMAIN access_tokens
           /\ (pc[M] = "request" /\ frames[M] = 1)
                 => /\ IsGrant(lastOauth[M])
                    /\ access_tokens[region[M]] = GrantRecord(lastOauth[M], now[M])

\* the first resource request of a call for a region that had no record
C5_Witness ==
    /\ InGetResource /\ region[M] \notin DOMAIN cache0[M]
    /\ pc[M] = "request" /\ frames[M] = 1
    /\ region[M] \in DOMAIN access_tokens

\* C6: a get_resource call for a region whose record expires more than 30
\* seconds after the clock reading of the call sends no OAuth request before
\* its resource request, and none at all, leaving the cache as it was, as
\* long as no 401 is answered.
C6_FreshTokenNoExchange ==
    (/\ InGetResource /\ region[M] \in DOMAIN cache0[M]
     /\ cache0[M][region[M]]["expiration"] - checkNow[M] > Margin)
        => /\ nPre[M] = 0
           /\ frames[M] >= 1
           /\ No401 => (nForced[M] = 0 /\ access_tokens = cache0[M])

\* a call on a fresh record that returned data without any exchange
C6_Witness ==
    /\ InGetResource /\ region[M] \in DOMAIN cache0[M]
    /\ cache0[M][region[M]]["expiration"] - checkNow[M] > Margin
    /\ pc[M] = "done" /\ result[M].kind = "data"
    /\ nPre[M] = 0 /\ nForced[M] = 0

\* C7: a get_resource call for a region whose record expires 30 seconds or
\* less after the clock reading of the call, or has expired, sends exactly one
\* OAuth request before its resource request; when the first resource request
\* is on the wire the record is the one that exchange granted.
C7_StaleTokenOneExchange ==
    (/\ InGetResource /\ region[M] \in DOMAIN cache0[M]
     /\ cache0[M][region[M]]["expiration"] - checkNow[M] <= Margin)
        => /\ nPre[M] = 1
           /\ (pc[M] = "request" /\ frames[M] = 1)
                 => /\ IsGrant(lastOauth[M])
                    /\ now[M] = checkNow[M]
                    /\ access_tokens[region[M]] = GrantRecord(lastOauth[M], now[M])

\* the record expired exactly 30 seconds after the call, and was replaced
\* before the first resource request
C7_Witness ==
    /\ InGetResource /\ region[M] \in DOMAIN cache0[M]
    /\ cache0[M][region[M]]["expiration"] - checkNow[M] = Margin
    /\ pc[M] = "request" /\ frames[M] = 1
    /\ access_tokens[region[M]] # cache0[M][region[M]]

\* C8: after a grant of token T and expires_in E to an exchange that read the
\* clock at t0 before sending, the record of the region is {T, t0 + E},
\* whenever the answer arrived.
C8_ExpirationFromStart ==
    (pc[M] \in {"request", "done"} /\ IsGrant(lastOauth[M]))
        => access_tokens[region[M]] =
              [token |-> lastOauth[M].body.fields["access_token"],
               expiration |-> now[M] + lastOauth[M].body.fields["expires_in"]]

\* a grant that arrived after the clock had moved on from t0
C8_Witness ==
    /\ pc[M] = "request" /\ IsGrant(lastOauth[M])
    /\ recvAt[M] > now[M]
    /\ access_tokens[region[M]]["expiration"] =
          now[M] + lastOauth[M].body.fields["expires_in"]

\* C9: an OAuth answer of 200 whose JSON body has no access_token ends the
\* exchange with WowApiOauthException and leaves the cache as it was.
C9_MissingTokenIsOauthError ==
    [][(pc[M] = "oauth" /\ pc'[M] # "oauth" /\ LacksToken(lastOauth'[M]))
          => (result'[M] = WowApiOauthException /\ access_tokens' = access_tokens)]_vars

\* C10: when the exchange of get_resource's freshness check fails in
\* transport, by status or by a non-JSON body, the call ends with
\* WowApiOauthException after that one OAuth request, with the cache as it
\* was when the call started and no resource request sent.
C10_OauthFailureEndsCall ==
    (InGetResource /\ frames[M] = 0 /\ PlainFailure(lastOauth[M]))
        => /\ pc[M] = "done"
           /\ result[M] = WowApiOauthException
           /\ nPre[M] = 1 /\ nForced[M] = 0
           /\ access_tokens = cache0[M]
           /\ hist[M] = <<>>

\* the refresh of a stale record failed by status: the record is still there
C10_Witness ==
    /\ InGetResource /\ frames[M] = 0 /\ pc[M] = "done"
    /\ lastOauth[M].type = "response" /\ lastOauth[M].status = 401
    /\ region[M] \in DOMAIN access_tokens

\* C11: a call that does not return data ends with WowApiOauthException,
\* raised by an OAuth exchange that was not granted, or with WowApiException,
\* raised after an answer of the resource endpoint, and with nothing else.
C11_OnlyTypedErrors ==
    pc[M] = "done"
        => \/ result[M].kind = "data"
           \/ /\ result[M] = WowApiOauthException
              /\ lastOauth[M] # NoAnswer /\ ~IsGrant(lastOauth[M])
           \/ /\ result[M] = WowApiException
              /\ hist[M] # <<>>

\* the last answer of the history h
Last(h) == h[Len(h)]

\* M's resource request is answered in this step, and the history has room
\* to keep the answer
AnswerStep == pc[M] = "request" /\ Len(hist[M]) < MaxCount /\ hist'[M] # hist[M]

\* the step ends the call with WowApiException and does nothing else: no
\* OAuth request, no resource request, no change of the cache
EndsWithRequestError ==
    /\ pc'[M] = "done"
    /\ result'[M] = WowApiException
    /\ nForced'[M] = nForced[M]
    /\ frames'[M] = frames[M]
    /\ access_tokens' = access_tokens

\* the resource endpoint answered a status that is not ok and not 401
OtherStatus(out) == out.type = "response" /\ out.status >= 400 /\ out.status # 401

\* C12: an answer of the resource endpoint with a non-success status other
\* than 401 ends the call with WowApiException at that answer: no OAuth
\* exchange, no further resource request, the cache unchanged.
C12_OtherStatusEndsCall ==
    [][(AnswerStep /\ OtherStatus(Last(hist'[M]))) => EndsWithRequestError]_vars

\* a retried request answered 404
C12_Witness ==
    /\ pc[M] = "done" /\ Len(hist[M]) = 2
    /\ OtherStatus(hist[M][2])
    /\ result[M] = WowApiException

\* C13: a transport failure of a resource request, first or retried, ends the
\* call with WowApiException at once: no OAuth exchange, no further resource
\* request, the cache unchanged.
C13_TransportFailureEndsCall ==
    [][(AnswerStep /\ Last(hist'[M]).type = "RequestException")
          => EndsWithRequestError]_vars

\* a retried request that failed in transport
C13_Witness ==
    /\ pc[M] = "done" /\ Len(hist[M]) = 2
    /\ hist[M][2].type = "RequestException"
    /\ result[M] = WowApiException

\* C14: the cache is empty at construction; no step removes a region from
\* it, and it changes only in the step in which an exchange is granted.
C14_CacheOnlyGrows ==
    /\ access_tokens = EmptyDict
    /\ [][/\ DOMAIN access_tokens \subseteq DOMAIN access_tokens'
          /\ access_tokens' # access_tokens
                => (pc[M] = "oauth" /\ IsGrant(lastOauth'[M]))]_vars

\* both regions hold a record, the one of the call was replaced, and the call
\* failed
C14_Witness ==
    /\ DOMAIN access_tokens = Regions
    /\ pc[M] = "done" /\ result[M].kind # "data"
    /\ region[M] \in DOMAIN cache0[M]
    /\ access_tokens[region[M]] # cache0[M][region[M]]

\* C15: a step that changes the cache changes the record of the call's region
\* alone, to the token and the expiration of the one grant just received;
\* the other regions keep their records, and the OAuth request on the wire
\* is the one for the call's region.
C15_OnlyOwnRegion ==
    [][/\ \A r \in DOMAIN access_tokens :
             r # region[M] => (r \in DOMAIN access_tokens'
                               /\ access_tokens'[r] = access_tokens[r])
       /\ DOMAIN access_tokens' \subseteq DOMAIN access_tokens \cup {region[M]}
       /\ access_tokens' # access_tokens
             => /\ IsGrant(lastOauth'[M])
                /\ access_tokens'[region[M]] = GrantRecord(lastOauth'[M], now[M])
       /\ pc'[M] = "oauth" => oauthUrl'[M] = OauthUrl(region'[M])]_vars

\* the record of the call's region was replaced, token and expiration, next
\* to the untouched record of the other region
C15_Witness ==
    /\ DOMAIN access_tokens = Regions
    /\ pc[M] = "request" /\ DOMAIN cache0[M] = Regions
    /\ access_tokens[region[M]]["token"] # cache0[M][region[M]]["token"]
    /\ access_tokens[region[M]]["expiration"] # cache0[M][region[M]]["expiration"]
    /\ \A r \in Regions \ {region[M]} : access_tokens[r] = cache0[M][r]

\* C16: two get_resource calls for one region never both have the exchange of
\* their freshness check on the wire: the second waits for the first and then
\* finds its record.
C16_OneExchangePerNeed ==
    \A p, q \in Callers :
        (/\ p # q /\ region[p] = region[q]
         /\ style[p] = "get_resource" /\ style[q] = "get_resource"
         /\ pc[p] = "oauth" /\ frames[p] = 0)
            => ~(pc[q] = "oauth" /\ frames[q] = 0)

\* C17: when the exchange of q started after the exchange of p for the same
\* region and before p's was answered, then once both are granted the record
\* of the region is the one q's exchange made.
C17_LastStartedWins ==
    \A p, q \in Callers :
        (/\ p # q /\ region[p] = region[q]
         /\ pc[p] \in {"request", "done"} /\ pc[q] \in {"request", "done"}
         /\ IsGrant(lastOauth[p]) /\ IsGrant(lastOauth[q])
         /\ now[p] < now[q] /\ now[q] < recvAt[p])
            => access_tokens[region[q]] = GrantRecord(lastOauth[q], now[q])

\* C18: the first resource request of a get_resource call carries the
\* caller's filters and access_token, which is the token the cache holds for
\* the region; every other filter has the caller's value.
C18_FirstRequestParams ==
    (InGetResource /\ pc[M] = "request" /\ frames[M] = 1)
        => /\ DOMAIN params[M] = DOMAIN filters0[M] \cup {"access_token"}
           /\ params[M]["access_token"] = access_tokens[region[M]]["token"]
           /\ \A k \in DOMAIN filters0[M] \ {"access_token"} :
                 params[M][k] = filters0[M][k]

\* a first request with the caller's locale and the token an exchange of the
\* freshness check has just stored
C18_Witness ==
    /\ InGetResource /\ pc[M] = "request" /\ frames[M] = 1
    /\ nPre[M] = 1
    /\ "locale" \in DOMAIN filters0[M]
    /\ params[M]["locale"] = "en_GB"
    /\ params[M]["access_token"] = lastOauth[M].body.fields["access_token"]

\* how a call that has sent a resource request ends, told from the answers
\* alone: h the answers of the resource endpoint, o the last OAuth answer
EndOf(h, o) ==
    IF Is401(Last(h))
        THEN IF PlainFailure(o) THEN WowApiOauthException ELSE KeyError
        ELSE IF IsPayload(Last(h)) THEN Returned(Last(h).body.data)
                                   ELSE WowApiException

\* C19: from its first resource request on, what a call does is fixed by the
\* answers it gets and not by the method that was called: every answer but
\* the last was a 401 followed by a granted forced refresh and one more
\* request, and the result is the one the last answers give.  The same
\* description holds of get_resource and of get_data_resource.
C19_SameHandlerBothStyles ==
    (pc[M] # "idle" /\ frames[M] >= 1 /\ Len(hist[M]) < MaxCount)
        => /\ \A i \in 1..(Len(hist[M]) - 1) : Is401(hist[M][i])
           /\ pc[M] = "request"
                 => /\ \A i \in DOMAIN hist[M] : Is401(hist[M][i])
                    /\ frames[M] = Len(hist[M]) + 1
                    /\ nForced[M] = Len(hist[M])
           /\ pc[M] = "oauth"
                 => /\ Is401(Last(hist[M]))
                    /\ frames[M] = Len(hist[M])
                    /\ nForced[M] = Len(hist[M])
           /\ pc[M] = "done"
                 => /\ frames[M] = Len(hist[M])
                    /\ nForced[M] = Len(hist[M]) - (IF Is401(Last(hist[M])) THEN 0 ELSE 1)
                    /\ result[M] = EndOf(hist[M], lastOauth[M])

\* a get_data_resource call that was answered 401, refreshed, retried and
\* returned the payload, as the get_resource call of C4 does
C19_Witness ==
    /\ style[M] = "get_data_resource" /\ pc[M] = "done"
    /\ Len(hist[M]) = 2 /\ Is401(hist[M][1]) /\ IsPayload(hist[M][2])
    /\ nForced[M] = 1 /\ frames[M] = 2
    /\ result[M] = Returned(hist[M][2].body.data)

\* C20: a get_data_resource call sends its resource request without any
\* OAuth request before it, whatever the cache holds; it sends an OAuth
\* request only after a 401, and without a 401 the cache stays as it was.
C20_DataResourceNoFreshnessCheck ==
    (pc[M] # "idle" /\ style[M] = "get_data_resource")
        => /\ nPre[M] = 0
           /\ frames[M] >= 1
           /\ pc[M] = "oauth" => (hist[M] # <<>> /\ Is401(hist[M][1]))
           /\ No401 => (nForced[M] = 0 /\ access_tokens = cache0[M])

\* the request of a get_data_resource call on the wire while the record of
\* the region has expired
C20_Witness ==
    /\ style[M] = "get_data_resource" /\ pc[M] = "request" /\ frames[M] = 1
    /\ region[M] \in DOMAIN cache0[M]
    /\ checkNow[M] >= cache0[M][region[M]]["expiration"]
    /\ access_tokens = cache0[M]

\* C21: the OAuth request goes to https://www.battlenet.com.cn and the
\* resource request of get_resource to https://www.gateway.battlenet.com.cn/
\* when the region is "cn", and only then; for every other region string,
\* known or not, they go to https://{region}.battle.net and to
\* https://{region}.api.blizzard.com/; and no call ends before an HTTP
\* request of it was answered.
C21_HostsByRegion ==
    /\ pc[M] = "oauth"
          => /\ oauthUrl[M] =
                   (IF region[M] = "cn"
                       THEN <<"https://", "www.battlenet.com.cn">>
                       ELSE <<"https://", region[M], ".battle.net">>) \o OauthPath
             /\ oauthUrl[M][2] = "www.battlenet.com.cn" <=> region[M] = "cn"
    /\ InGetResource
          => /\ IF region[M] = "cn"
                   THEN SubSeq(url[M], 1, 3) =
                           <<"https://", "www.gateway.battlenet.com.cn", "/">>
                   ELSE SubSeq(url[M], 1, 4) =
                           <<"https://", region[M], ".api.blizzard.com", "/">>
             /\ url[M][2] = "www.gateway.battlenet.com.cn" <=> region[M] = "cn"
    /\ pc[M] = "done" => (lastOauth[M] # NoAnswer \/ hist[M] # <<>>)

\* a call for a region string that names no region got its token and its
\* data from the templated hosts
C21_Witness ==
    /\ InGetResource /\ region[M] = "xx" /\ pc[M] = "done"
    /\ url[M][2] = "xx" /\ oauthUrl[M][2] = "xx"
    /\ IsGrant(lastOauth[M])
    /\ result[M].kind = "data"

\* the decimal numerals of the item ids
Numeral(id) == CASE id = 7 -> "7" [] id = 1234 -> "1234"

\* C22: get_item(region, id) requests https://{host}/wow/item/{id}, the id as
\* its decimal numeral in the place of the one field and nowhere else; the
\* arguments of a template of two fields fill them in the order they were
\* given: get_guild_profile(region, realm, guild_name) requests
\* https://{host}/wow/guild/{realm}/{guild_name}.
C22_ItemUrl ==
    InGetResource
        => /\ \A id \in ItemIds :
                 (resource0[M] = ItemResource /\ args0[M] = <<IntArg(id)>>)
                     => url[M] = <<"https://">> \o BaseUrl(region[M])
                                    \o <<"/", "wow/item/", Numeral(id)>>
           /\ \A realm \in RealmNames, guild_name \in GuildNames :
                 (/\ resource0[M] = GuildResource
                  /\ args0[M] = <<StrArg(realm), StrArg(guild_name)>>)
                     => url[M] = <<"https://">> \o BaseUrl(region[M])
                                    \o <<"/", "wow/guild/", realm, "/", guild_name>>

\* the request of get_item('us', 1234) is on the wire
C22_Witness ==
    /\ InGetResource /\ pc[M] = "request" /\ frames[M] = 1
    /\ args0[M] = <<IntArg(1234)>>
    /\ url[M] = <<"https://", "us", ".api.blizzard.com", "/", "wow/item/", "1234">>

\* C23: the step in which a resource request is answered 401 leaves the cache
\* as it is, and when the OAuth exchange it forces fails in transport, by
\* status or by a non-JSON body, the call ends in that step with
\* WowApiOauthException: no further resource request, no further OAuth
\* request, the cache unchanged.
C23_ForcedExchangeFailureEndsCall ==
    [][/\ (AnswerStep /\ Is401(Last(hist'[M]))) => access_tokens' = access_tokens
       /\ (/\ pc[M] = "oauth" /\ frames[M] >= 1
           /\ pc'[M] # "oauth" /\ PlainFailure(lastOauth'[M]))
             => /\ pc'[M] = "done"
                /\ result'[M] = WowApiOauthException
                /\ frames'[M] = frames[M]
                /\ nForced'[M] = nForced[M]
                /\ access_tokens' = access_tokens]_vars

\* the one request of a call on a cached record was answered 401, the forced
\* exchange failed, and the record is still the one the call found
C23_Witness ==
    /\ pc[M] = "done" /\ frames[M] = 1
    /\ Len(hist[M]) = 1 /\ Is401(hist[M][1])
    /\ PlainFailure(lastOauth[M])
    /\ result[M] = WowApiOauthException
    /\ region[M] \in DOMAIN cache0[M]
    /\ access_tokens = cache0[M]

\* the resource endpoint answered 200 with a body that is not JSON
NotJson(out) == out.type = "response" /\ out.status = 200 /\ ~out.body.json

\* C24: an answer of the resource endpoint of status 200 whose body is not
\* valid JSON ends the call with WowApiException at that answer: no retry, no
\* OAuth exchange, the cache unchanged.
C24_MalformedPayloadEndsCall ==
    [][(AnswerStep /\ NotJson(Last(hist'[M]))) => EndsWithRequestError]_vars

\* the first request of a call was answered 200 with a body that does not
\* parse
C24_Witness ==
    /\ pc[M] = "done" /\ Len(hist[M]) = 1
    /\ NotJson(hist[M][1])
    /\ result[M] = WowApiException
    /\ nForced[M] = 0

\* C25: a get_resource call sends at most one OAuth request before its first
\* resource request; when it sends none, the record whose token that request
\* carries expires more than 30 seconds after the clock reading of the call.
C25_OneExchangeOrFreshToken ==
    InGetResource
        => /\ nPre[M] <= 1
           /\ (pc[M] = "oauth" /\ frames[M] = 0) => nPre[M] = 1
           /\ nPre[M] = 0
                 => /\ frames[M] >= 1
                    /\ region[M] \in DOMAIN cache0[M]
                    /\ cache0[M][region[M]]["expiration"] > checkNow[M] + Margin
                    /\ (pc[M] = "request" /\ frames[M] = 1)
                          => /\ params[M]["access_token"] =
                                   cache0[M][region[M]]["token"]
                             /\ access_tokens = cache0[M]

\* a first request sent without an exchange, on a record with 40 seconds left
C25_Witness ==
    /\ InGetResource /\ pc[M] = "request" /\ frames[M] = 1
    /\ nPre[M] = 0
    /\ cache0[M][region[M]]["expiration"] - checkNow[M] = 40

\* C26: whatever the callers do and however their calls interleave, a
\* get_resource call that has sent a resource request for its region finds a
\* record of the region in the cache, and no get_resource call ends with the
\* KeyError of the cache read that attaches the token.
C26_DispatchFindsRecord ==
    \A p \in Callers :
        (pc[p] # "idle" /\ style[p] = "get_resource")
            => /\ frames[p] >= 1 => region[p] \in DOMAIN access_tokens
               /\ (pc[p] = "done" /\ result[p] = KeyError)
                     => (lastOauth[p] # NoAnswer /\ ~IsGrant(lastOauth[p]))

\* a caller found the record the exchange of the other had just stored, and
\* sent its request with that token without an exchange of its own
C26_Witness ==
    \E p, q \in Callers :
        /\ p # q /\ region[p] = region[q]
        /\ pc[p] = "request" /\ frames[p] = 1 /\ nPre[p] = 0
        /\ IsGrant(lastOauth[q])
        /\ access_tokens[region[p]] = GrantRecord(lastOauth[q], now[q])
        /\ params[p]["access_token"] = lastOauth[q].body.fields["access_token"]

\* C27: a get_data_resource call for a region that has no record sends its
\* request with access_token '' and ends only after an answer to a request;
\* the cache gets a record of the region, and of no other, only after a 401
\* to the first request and a granted forced exchange.
C27_DataCallWithoutRecord ==
    (/\ pc[M] # "idle" /\ style[M] = "get_data_resource"
     /\ region[M] \notin DOMAIN cache0[M])
        => /\ frames[M] >= 1
           /\ (pc[M] = "request" /\ frames[M] = 1) => params[M] = [access_token |-> ""]
           /\ pc[M] = "done" => hist[M] # <<>>
           /\ DOMAIN access_tokens \subseteq DOMAIN cache0[M] \cup {region[M]}
           /\ region[M] \in DOMAIN access_tokens
                 => (Is401(hist[M][1]) /\ nForced[M] >= 1 /\ frames[M] >= 2)

\* the call returned data on its empty token, and the region still has no
\* record
C27_Witness ==
    /\ style[M] = "get_data_resource" /\ pc[M] = "done"
    /\ region[M] \notin DOMAIN cache0[M]
    /\ params[M] = [access_token |-> ""]
    /\ result[M].kind = "data"
    /\ region[M] \notin DOMAIN access_tokens

\* C28: when the caller's filters hold access_token, the request get_resource
\* sends carries under that name the token of the region's record, and no
\* request of the call carries the caller's value.
C28_CachedTokenOverridesFilter ==
    (/\ InGetResource /\ "access_token" \in DOMAIN filters0[M]
     /\ pc[M] = "request")
        => /\ params[M]["access_token"] # filters0[M]["access_token"]
           /\ params[M]["access_token"] \in Tokens
           /\ frames[M] = 1
                 => params[M]["access_token"] = access_tokens[region[M]]["token"]

\* the caller passed access_token='mine' and the request carries the token of
\* a record that was cached before the call
C28_Witness ==
    /\ InGetResource /\ pc[M] = "request" /\ frames[M] = 1
    /\ "access_token" \in DOMAIN filters0[M]
    /\ filters0[M]["access_token"] = "mine"
    /\ nPre[M] = 0
    /\ params[M]["access_token"] = cache0[M][region[M]]["token"]

\* C29: while the OAuth endpoint grants no expires_in above 30 seconds, every
\* get_resource call, at whatever time and whatever the cache holds, sends
\* one OAuth request before its resource request, and that request carries
\* the token of the record the exchange has just stored.
C29_ShortLivedNeverFresh ==
    InGetResource
        => /\ nPre[M] = 1
           /\ (pc[M] = "request" /\ frames[M] = 1)
                 => /\ IsGrant(lastOauth[M])
                    /\ access_tokens[region[M]] = GrantRecord(lastOauth[M], now[M])
                    /\ params[M]["access_token"] =
                          lastOauth[M].body.fields["access_token"]

\* the region had a record that had not expired yet when the call was made;
\* the call replaced it and sent the new token
C29_Witness ==
    /\ InGetResource /\ pc[M] = "request" /\ frames[M] = 1
    /\ region[M] \in DOMAIN cache0[M]
    /\ cache0[M][region[M]]["expiration"] > checkNow[M]
    /\ params[M]["access_token"] # cache0[M][region[M]]["token"]
    /\ params[M]["access_token"] = access_tokens[region[M]]["token"]

====
